---- MODULE Spec2Model ----
(***************************************************************************)
(* Model of AutoEncoder_KMeans_MNIST.ipynb: the Encoder / Decoder /        *)
(* AutoEncoder classes (topology derived from hidden_layers) and the       *)
(* notebook's pipeline: pre-training, fine-tuning, evaluation.             *)
(*                                                                         *)
(* A tensor is modelled by its width (number of features); a Linear layer  *)
(* by its (in, out) shape; the parameters of a model by the identity of    *)
(* the optimizer steps that produced them.  Loss values are fixed-point    *)
(* numbers in units of 1e-6; the learning rate is in units of 1e-4.        *)
(***************************************************************************)
EXTENDS Integers, Sequences, FiniteSets, TLC

VARIABLES
    pc,             \* position in the notebook (which cell / loop point runs next)
    args,           \* arguments of the AutoEncoder(...) constructor call
    model,          \* the notebook's global `model` (NoModel before construction)
    err,            \* exception raised by the last operation ("none" if none)
    out,            \* result of the last forward call of the architecture check
    run,            \* epochs per phase and loss values the data can produce in this run
    storage,        \* ./torch_models/: path -> pickled model, or Absent
    losses,         \* the notebook's global `losses` list
    loss,           \* the notebook's global `loss` (loss of the last batch)
    best_loss,      \* the notebook's global `best_loss`
    epoch,          \* loop variable `epoch`
    n_epochs,       \* the notebook's global `n_epochs`
    batch,          \* number of batches of the current epoch already processed
    lr,             \* learning rate of the current optimizer's parameter group
    last_epoch,     \* StepLR's step counter
    X_embedded_pretrained,  \* result of the pre-trained evaluation cell
    X_embedded,     \* result of the fine-tuned evaluation cell
    hist            \* history (ghost): what the run has done so far

vars == <<pc, args, model, err, out, run, storage, losses, loss, best_loss, epoch,
          n_epochs, batch, lr, last_epoch, X_embedded_pretrained, X_embedded, hist>>

-----------------------------------------------------------------------------
(* Bounds of the model *)
MaxLen == 3
MaxWidth == 3
MaxPreEpochs == 2
MaxFtEpochs == 2
NumBatches == 2

(* Values *)
NoModel == [kind |-> "none"]
Absent == [kind |-> "absent"]
NoResult == [kind |-> "none"]
NaN == -1
Inf == 1000000

-----------------------------------------------------------------------------
(* torch.nn.Linear(in, out): an affine transform, modelled by its shape *)
Linear(i, o) == [in |-> i, out |-> o]

(* a copy that is not reversed: hidden_layers[:] *)
Reverse_Copy(s) == s

(* Python's hidden_layers[::-1] : a new, reversed list *)
Reverse(s) == [i \in 1..Len(s) |-> s[Len(s) + 1 - i]]

(* Encoder.__init__ ; layers dense_0 .. dense_{n_layers-1} are the attributes
   set with setattr, kept as a function from the index in the name *)
Encoder(input_size, hidden_layers, dropout_rate, activation) ==
    IF Len(hidden_layers) = 0
    THEN [err |-> "IndexError"]      \* hidden_layers[0] of an empty list
    ELSE [err |-> "none",
          input_layer |-> Linear(input_size, hidden_layers[1]),
          n_layers |-> Len(hidden_layers) - 1,
          dense |-> [i \in 0..(Len(hidden_layers) - 2) |->
                        Linear(hidden_layers[i + 1], hidden_layers[i + 2])],
          activation |-> activation,
          hidden_layers |-> hidden_layers,
          dropout_rate |-> dropout_rate,
          input_size |-> input_size]

(* Decoder.__init__ with the output projection taken from hidden_layers[0] *)
Decoder_OutputFromFirst(encoder, activation) ==
    LET rev == Reverse(encoder.hidden_layers)
        n_layers == encoder.n_layers
    IN [err |-> "none",
        hidden_layers |-> rev,
        dense |-> [i \in 0..(n_layers - 1) |-> Linear(rev[i + 1], rev[i + 2])],
        output_layer |-> Linear(rev[1], encoder.input_size),
        n_layers |-> n_layers,
        activation |-> activation,
        dropout_rate |-> encoder.dropout_rate]

(* Decoder.__init__ without the reversal of hidden_layers *)
Decoder_NotReversed(encoder, activation) ==
    LET rev == encoder.hidden_layers
        n_layers == encoder.n_layers
    IN [err |-> "none",
        hidden_layers |-> rev,
        dense |-> [i \in 0..(n_layers - 1) |-> Linear(rev[i + 1], rev[i + 2])],
        output_layer |-> Linear(rev[Len(rev)], encoder.input_size),
        n_layers |-> n_layers,
        activation |-> activation,
        dropout_rate |-> encoder.dropout_rate]

(* Decoder.__init__ *)
Decoder(encoder, activation) ==
    LET rev == Reverse(encoder.hidden_layers)
        n_layers == encoder.n_layers
    IN [err |-> "none",
        hidden_layers |-> rev,
        dense |-> [i \in 0..(n_layers - 1) |-> Linear(rev[i + 1], rev[i + 2])],
        output_layer |-> Linear(rev[Len(rev)], encoder.input_size),
        n_layers |-> n_layers,
        activation |-> activation,
        dropout_rate |-> encoder.dropout_rate]

DefaultActivation == "ReLU"

(* AutoEncoder.__init__ : the activation argument is not handed on, so the
   Encoder and the Decoder are built with their default activation *)
AutoEncoder(input_size, hidden_layers, dropout_rate, activation) ==
    LET enc == Encoder(input_size, hidden_layers, dropout_rate, DefaultActivation)
    IN IF enc.err # "none"
       THEN [kind |-> "failed", err |-> enc.err]
       ELSE [kind |-> "model",
             err |-> "none",
             encoder |-> enc,
             decoder |-> Decoder(enc, DefaultActivation),
             hidden_layers |-> hidden_layers,
             training |-> TRUE,       \* nn.Module starts in training mode
             params |-> [pre |-> 0, ft |-> 0, nan |-> FALSE]]

-----------------------------------------------------------------------------
(* Forward pass.  A value in flight is [err, w, trace]: the exception raised
   so far, the width of the tensor, and the stages applied. *)
Tensor(w) == [err |-> "none", w |-> w, trace |-> <<>>]

(* applying a Linear layer: the tensor's width must be the layer's in *)
ApplyLinear(layer, x) ==
    IF x.err # "none" THEN x
    ELSE IF x.w # layer.in
         THEN [x EXCEPT !.err = "RuntimeError"]      \* shapes cannot be multiplied
         ELSE [x EXCEPT !.w = layer.out, !.trace = Append(@, "linear")]

ApplyStage(name, x) ==
    IF x.err # "none" THEN x ELSE [x EXCEPT !.trace = Append(@, name)]

(* getattr(self, f"dense_{i}")(x) *)
ApplyDense(net, i, x) ==
    IF x.err # "none" THEN x
    ELSE IF i \notin DOMAIN net.dense
         THEN [x EXCEPT !.err = "AttributeError"]
         ELSE ApplyLinear(net.dense[i], x)

(* Encoder.forward: the loop over range(0, n_layers - 1) from index i on *)
RECURSIVE EncoderLoop(_, _, _)
EncoderLoop(enc, i, x) ==
    IF i >= enc.n_layers - 1 THEN x
    ELSE EncoderLoop(enc, i + 1,
            ApplyStage("dropout", ApplyStage("activation", ApplyDense(enc, i, x))))

Encoder_forward(enc, x) ==
    LET x0 == ApplyStage("activation", ApplyLinear(enc.input_layer, x))
        x1 == EncoderLoop(enc, 0, x0)
    IN ApplyDense(enc, enc.n_layers - 1, x1)

(* Decoder.forward: the loop over range(0, n_layers) from index i on *)
RECURSIVE DecoderLoop(_, _, _)
DecoderLoop(dec, i, x) ==
    IF i >= dec.n_layers THEN x
    ELSE DecoderLoop(dec, i + 1,
            ApplyStage("dropout", ApplyStage("activation", ApplyDense(dec, i, x))))

(* Decoder.forward with the activation applied to the output projection too *)
Decoder_forward_ActivatedOutput(dec, x) ==
    ApplyStage("activation", ApplyLinear(dec.output_layer, DecoderLoop(dec, 0, x)))

Decoder_forward(dec, x) ==
    ApplyLinear(dec.output_layer, DecoderLoop(dec, 0, x))

(* AutoEncoder.forward: (encoded, decoded) *)
AutoEncoder_forward(m, x) ==
    LET encoded == Encoder_forward(m.encoder, x)
        decoded == Decoder_forward(m.decoder,
                       [encoded EXCEPT !.trace = <<>>])
    IN [err |-> IF encoded.err # "none" THEN encoded.err ELSE decoded.err,
        encoded |-> encoded,
        decoded |-> decoded]

-----------------------------------------------------------------------------
(* The notebook's configuration *)
n_input_features == 784
NotebookLayers == <<500, 500, 2000, 10>>
DropoutRate == 20               \* dropout_rate=0.2, in percent
LrInit == 1000                  \* lr = 0.1, in units of 1e-4
StepSize == 100                 \* StepLR step_size
GammaDiv == 10                  \* StepLR gamma=0.1: the rate is divided by 10
PreTrainEpochs == 300

PathPretrained == "./torch_models/autoencoder"
PathFinetuned == "./torch_models/autoencoder-finetuned"
PathFinetunedOld == "./torch_models/autoencoder-finetuned-old"
Paths == {PathPretrained, PathFinetuned, PathFinetunedOld}

(* Loss values a batch can produce (units of 1e-6), NaN standing for any
   non-finite value *)
FiniteLosses == {10, 30}
SteadyLoss == 10

(* Python's a < b on floats: false as soon as one side is NaN *)
Less(a, b) == a # NaN /\ b # NaN /\ a < b

RECURSIVE SumLosses(_)
SumLosses(s) == IF s = <<>> THEN 0 ELSE s[1].v + SumLosses(Tail(s))

(* np.round(np.mean(losses), 5): the mean, rounded half-to-even to a multiple
   of 1e-5, i.e. of 10 units; NaN if any entry is *)
MeanRound5(s) ==
    IF \E i \in DOMAIN s : s[i].v = NaN THEN NaN
    ELSE LET d == 10 * Len(s)
             q == SumLosses(s) \div d
             r == SumLosses(s) % d
         IN 10 * (IF 2 * r < d THEN q
                  ELSE IF 2 * r > d THEN q + 1
                  ELSE IF q % 2 = 0 THEN q ELSE q + 1)

(* the batch losses the current parameters can give: non-finite parameters
   give a non-finite loss *)
LossOutcomes(m) == IF m.params.nan THEN {NaN} ELSE run.lossvals

(* loss.backward(); optimizer.step() : the parameters change in place; a
   non-finite loss makes them non-finite *)
OptimizerStep(m, phase, l) ==
    [m EXCEPT !.params = [pre |-> IF phase = "pre" THEN @.pre + 1 ELSE @.pre,
                          ft |-> IF phase = "ft" THEN @.ft + 1 ELSE @.ft,
                          nan |-> @.nan \/ l = NaN]]

(* a scheduler that decays when the counter before the step is a multiple of
   step_size *)
SchedulerStep_OffByOne(rate, counter) ==
    IF counter % StepSize = 0 THEN rate \div GammaDiv ELSE rate

(* StepLR.step(): the counter advances and the rate is multiplied by gamma
   each time the counter reaches a multiple of step_size *)
SchedulerStep(rate, counter) ==
    IF (counter + 1) % StepSize = 0 THEN rate \div GammaDiv ELSE rate

(* the condition under which each phase stores the model at the end of an epoch *)
PreTrainShouldSave(mean_loss) == Less(mean_loss, best_loss)

(* fine-tuning storing the model only on an improvement, as pre-training does *)
FineTuneShouldSave_OnImprovement(mean_loss) == Less(mean_loss, best_loss)

FineTuneShouldSave(mean_loss) == TRUE

(* fine-tuning storing its model over the pre-training checkpoint *)
FineTuneSavePath_Pretrained == PathPretrained

(* the path of torch.save in the fine-tuning loop *)
FineTuneSavePath == PathFinetuned

Topology(m) == [input_size |-> m.encoder.input_size, hidden_layers |-> m.hidden_layers]

(* what may lie at the path the notebook reads but never writes: nothing, or
   a model pickled by some earlier session *)
Foreign(input_size, hidden_layers, training) ==
    [AutoEncoder(input_size, hidden_layers, DropoutRate, DefaultActivation)
        EXCEPT !.training = training, !.params = [pre |-> -1, ft |-> -1, nan |-> FALSE]]

ExternalFiles ==
    {Absent} \cup
    {Foreign(n_input_features, NotebookLayers, FALSE),
     Foreign(n_input_features, <<500, 10>>, FALSE),
     Foreign(100, NotebookLayers, FALSE)}

HistInit ==
    [reads |-> {}, writes |-> {},
     lr_used |-> 0,
     min_mean |-> Inf, min_params |-> NoResult,
     mean |-> NoResult,
     load |-> NoResult,
     ft_start |-> NoResult,
     ft_saved |-> NoResult,
     pre_saved |-> Absent]

-----------------------------------------------------------------------------
(* Initial states *)
InitCommon ==
    /\ model = NoModel
    /\ err = "none"
    /\ out = NoResult
    /\ losses = <<>>
    /\ loss = 0
    /\ best_loss = Inf
    /\ epoch = 0
    /\ n_epochs = 0
    /\ batch = 0
    /\ lr = 0
    /\ last_epoch = 0
    /\ X_embedded_pretrained = NoResult
    /\ X_embedded = NoResult
    /\ hist = HistInit

NotebookArgs ==
    [input_size |-> n_input_features, hidden_layers |-> NotebookLayers,
     dropout_rate |-> DropoutRate, activation |-> DefaultActivation]

(* the notebook run top to bottom, with a bounded number of epochs *)
Init ==
    /\ InitCommon
    /\ pc = "create"
    /\ args = NotebookArgs
    /\ run = [pre_epochs |-> MaxPreEpochs, ft_epochs |-> MaxFtEpochs,
              lossvals |-> FiniteLosses \cup {NaN}]
    /\ storage \in {[p \in Paths |-> IF p = PathFinetunedOld THEN f ELSE Absent] :
                        f \in ExternalFiles}

(* the notebook run with the 300 pre-training epochs of the notebook, on data
   whose loss is steady *)
InitLR ==
    /\ InitCommon
    /\ pc = "create"
    /\ args = NotebookArgs
    /\ run = [pre_epochs |-> PreTrainEpochs, ft_epochs |-> MaxFtEpochs,
              lossvals |-> {SteadyLoss}]
    /\ storage \in {[p \in Paths |-> IF p = PathFinetunedOld THEN f ELSE Absent] :
                        f \in {Absent, Foreign(n_input_features, NotebookLayers, FALSE)}}

(* the classes on their own: any constructor arguments within the bounds
   (schedules of 0..MaxLen widths, each in 1..MaxWidth) *)
RECURSIVE Schedules(_)
Schedules(n) ==
    IF n = 0 THEN {<<>>}
    ELSE Schedules(n - 1) \cup
         {Append(s, w) : s \in {t \in Schedules(n - 1) : Len(t) = n - 1}, w \in 1..MaxWidth}

InitArch ==
    /\ InitCommon
    /\ pc = "arch_new"
    /\ args \in [input_size : 1..MaxWidth, hidden_layers : Schedules(MaxLen),
                 dropout_rate : {0, DropoutRate}, activation : {"ReLU", "Tanh"}]
    /\ run = [pre_epochs |-> 0, ft_epochs |-> 0, lossvals |-> {}]
    /\ storage = [p \in Paths |-> Absent]

-----------------------------------------------------------------------------
(* The classes on their own *)

(* model = AutoEncoder(input_size, hidden_layers, dropout_rate, activation) *)
Construct ==
    /\ pc = "arch_new"
    /\ LET m == AutoEncoder(args.input_size, args.hidden_layers,
                            args.dropout_rate, args.activation)
       IN IF m.kind = "failed"
          THEN /\ err' = m.err
               /\ pc' = "arch_failed"
               /\ UNCHANGED model
          ELSE /\ model' = m
               /\ pc' = "arch_built"
               /\ UNCHANGED err
    /\ UNCHANGED <<args, out, run, storage, losses, loss, best_loss, epoch, n_epochs,
                   batch, lr, last_epoch, X_embedded_pretrained, X_embedded, hist>>

(* model(x) for a tensor x of width w *)
Forward ==
    /\ pc = "arch_built"
    /\ \E w \in 1..MaxWidth :
         LET r == AutoEncoder_forward(model, Tensor(w))
         IN /\ out' = [kind |-> "forward", x |-> w, err |-> r.err,
                       encoded |-> r.encoded, decoded |-> r.decoded]
            /\ err' = r.err
    /\ pc' = "arch_done"
    /\ UNCHANGED <<args, model, run, storage, losses, loss, best_loss, epoch, n_epochs,
                   batch, lr, last_epoch, X_embedded_pretrained, X_embedded, hist>>

(* the transforms of a Decoder in the order forward applies them *)
DecoderShapes(dec) ==
    [i \in 1..dec.n_layers |-> dec.dense[i - 1]] \o <<dec.output_layer>>

(* two Encoders of the same input_size, one with hidden_layers and one with
   the same widths in the opposite order, and a Decoder built from each *)
ConstructMirrored ==
    /\ pc = "arch_new"
    /\ LET e1 == Encoder(args.input_size, args.hidden_layers,
                         args.dropout_rate, DefaultActivation)
           e2 == Encoder(args.input_size, Reverse(args.hidden_layers),
                         args.dropout_rate, DefaultActivation)
       IN IF e1.err # "none"
          THEN /\ err' = e1.err
               /\ pc' = "arch_failed"
               /\ UNCHANGED out
          ELSE /\ out' = [kind |-> "pair",
                          encoder1 |-> e1, encoder2 |-> e2,
                          decoder1 |-> Decoder(e1, DefaultActivation),
                          decoder2 |-> Decoder(e2, DefaultActivation)]
               /\ pc' = "arch_pair"
               /\ UNCHANGED err
    /\ UNCHANGED <<args, model, run, storage, losses, loss, best_loss, epoch, n_epochs,
                   batch, lr, last_epoch, X_embedded_pretrained, X_embedded, hist>>

NextArch == Construct \/ Forward \/ ConstructMirrored

-----------------------------------------------------------------------------
(* The notebook, cell by cell *)

(* cell "Create Model and Specify Training Parameters" *)
CreateModel ==
    /\ pc = "create"
    /\ LET m == AutoEncoder(args.input_size, args.hidden_layers,
                            args.dropout_rate, args.activation)
       IN IF m.kind = "failed"
          THEN /\ err' = m.err
               /\ pc' = "failed"
               /\ UNCHANGED <<model, lr, last_epoch>>
          ELSE /\ model' = [m EXCEPT !.training = TRUE]      \* model.train()
               /\ lr' = LrInit
               /\ last_epoch' = 0
               /\ pc' = "pretrain"
               /\ UNCHANGED err
    /\ UNCHANGED <<args, out, run, storage, losses, loss, best_loss, epoch, n_epochs,
                   batch, X_embedded_pretrained, X_embedded, hist>>

(* cell "Pre-train AutoEncoder": the statements before the loop *)
PreTrainStart ==
    /\ pc = "pretrain"
    /\ n_epochs' = run.pre_epochs
    /\ best_loss' = Inf
    /\ epoch' = 0
    /\ pc' = "pre_epoch"
    /\ UNCHANGED <<args, model, err, out, run, storage, losses, loss, batch, lr,
                   last_epoch, X_embedded_pretrained, X_embedded, hist>>

(* top of the epoch loop: losses = [] *)
PreTrainEpochBegin ==
    /\ pc = "pre_epoch"
    /\ epoch < n_epochs
    /\ losses' = <<>>
    /\ batch' = 0
    /\ pc' = "pre_batch"
    /\ UNCHANGED <<args, model, err, out, run, storage, loss, best_loss, epoch, n_epochs,
                   lr, last_epoch, X_embedded_pretrained, X_embedded, hist>>

(* one batch: forward, loss, losses.append, backward, optimizer.step *)
PreTrainBatch ==
    /\ pc = "pre_batch"
    /\ batch < NumBatches
    /\ AutoEncoder_forward(model, Tensor(n_input_features)).err = "none"
    /\ \E l \in LossOutcomes(model) :
         /\ loss' = l
         /\ losses' = Append(losses, [v |-> l, phase |-> "pre"])
         /\ model' = OptimizerStep(model, "pre", l)
    /\ batch' = batch + 1
    /\ hist' = [hist EXCEPT !.lr_used = lr]
    /\ UNCHANGED <<pc, args, err, out, run, storage, best_loss, epoch, n_epochs, lr,
                   last_epoch, X_embedded_pretrained, X_embedded>>

(* end of an epoch: mean_loss, scheduler.step(), the conditional save *)
PreTrainEpochEnd ==
    /\ pc = "pre_batch"
    /\ batch = NumBatches
    /\ LET mean_loss == MeanRound5(losses)
           save == PreTrainShouldSave(mean_loss)
           better == Less(mean_loss, hist.min_mean)
       IN /\ best_loss' = IF save THEN loss ELSE best_loss
          /\ storage' = IF save THEN [storage EXCEPT ![PathPretrained] = model]
                        ELSE storage
          /\ hist' = [hist EXCEPT
                        !.mean = [phase |-> "pre", epoch |-> epoch, v |-> mean_loss,
                                  over |-> {losses[i].phase : i \in DOMAIN losses},
                                  saved |-> save],
                        !.min_mean = IF better THEN mean_loss ELSE @,
                        !.min_params = IF better THEN model.params ELSE @,
                        !.pre_saved = IF save THEN model ELSE @,
                        !.writes = IF save THEN @ \cup {PathPretrained} ELSE @]
    /\ lr' = SchedulerStep(lr, last_epoch)
    /\ last_epoch' = last_epoch + 1
    /\ epoch' = epoch + 1
    /\ pc' = IF epoch + 1 < n_epochs THEN "pre_epoch" ELSE "finetune"
    /\ UNCHANGED <<args, model, err, out, run, losses, loss, n_epochs, batch,
                   X_embedded_pretrained, X_embedded>>

(* torch.load(path) into the global `model`: the pickled module replaces it;
   a missing file raises and leaves `model` as it was *)
LoadRecord(path) ==
    [path |-> path,
     found |-> storage[path] # Absent,
     stored |-> IF storage[path] # Absent THEN Topology(storage[path]) ELSE NoResult,
     target |-> Topology(model),
     before |-> model.params,
     ok |-> storage[path] # Absent]

(* cell "Fine-Tune Auto-Encoder": the statements before the loop *)
FineTuneStart ==
    /\ pc = "finetune"
    /\ IF storage[PathPretrained] = Absent
       THEN /\ err' = "FileNotFoundError"
            /\ pc' = "failed"
            /\ UNCHANGED <<model, lr, n_epochs, best_loss, epoch, batch>>
            /\ hist' = [hist EXCEPT !.reads = @ \cup {PathPretrained},
                                    !.load = LoadRecord(PathPretrained)]
       ELSE /\ model' = [storage[PathPretrained] EXCEPT !.training = FALSE]  \* model.eval()
            /\ lr' = LrInit
            /\ n_epochs' = run.ft_epochs
            /\ best_loss' = Inf
            /\ epoch' = 0
            /\ batch' = 0
            /\ pc' = "ft_batch"
            /\ hist' = [hist EXCEPT !.reads = @ \cup {PathPretrained},
                                    !.load = LoadRecord(PathPretrained),
                                    !.ft_start = [params |-> storage[PathPretrained].params,
                                                  losses |-> losses]]
            /\ UNCHANGED err
    /\ UNCHANGED <<args, out, run, storage, losses, loss, last_epoch,
                   X_embedded_pretrained, X_embedded>>

(* one batch of fine-tuning; `losses` is the list the notebook already has *)
FineTuneBatch ==
    /\ pc = "ft_batch"
    /\ batch < NumBatches
    /\ AutoEncoder_forward(model, Tensor(n_input_features)).err = "none"
    /\ \E l \in LossOutcomes(model) :
         /\ loss' = l
         /\ losses' = Append(losses, [v |-> l, phase |-> "ft"])
         /\ model' = OptimizerStep(model, "ft", l)
    /\ batch' = batch + 1
    /\ hist' = [hist EXCEPT !.lr_used = lr]
    /\ UNCHANGED <<pc, args, err, out, run, storage, best_loss, epoch, n_epochs, lr,
                   last_epoch, X_embedded_pretrained, X_embedded>>

(* end of a fine-tuning epoch: mean_loss, the save *)
FineTuneEpochEnd ==
    /\ pc = "ft_batch"
    /\ batch = NumBatches
    /\ LET mean_loss == MeanRound5(losses)
           save == FineTuneShouldSave(mean_loss)
       IN /\ storage' = IF save THEN [storage EXCEPT ![FineTuneSavePath] = model]
                        ELSE storage
          /\ hist' = [hist EXCEPT
                        !.mean = [phase |-> "ft", epoch |-> epoch, v |-> mean_loss,
                                  over |-> {losses[i].phase : i \in DOMAIN losses},
                                  saved |-> save],
                        !.writes = IF save THEN @ \cup {FineTuneSavePath} ELSE @,
                        !.ft_saved = [epoch |-> epoch, params |-> model.params]]
    /\ epoch' = epoch + 1
    /\ batch' = 0
    /\ pc' = IF epoch + 1 < n_epochs THEN "ft_batch" ELSE "eval_pre"
    /\ UNCHANGED <<args, model, err, out, run, losses, loss, best_loss, n_epochs, lr,
                   last_epoch, X_embedded_pretrained, X_embedded>>

(* model = torch.load(path); model(Tensor(X))[0] : what an evaluation cell does *)
Embed(m) ==
    LET r == AutoEncoder_forward(m, Tensor(n_input_features))
    IN [kind |-> "embedding", err |-> r.err, w |-> r.encoded.w,
        training |-> m.training, params |-> m.params, topology |-> Topology(m)]

(* cell "Evaluate Pre-trained Auto-Encoder" *)
EvalPretrained ==
    /\ pc = "eval_pre"
    /\ hist' = [hist EXCEPT !.reads = @ \cup {PathPretrained},
                            !.load = LoadRecord(PathPretrained)]
    /\ IF storage[PathPretrained] = Absent
       THEN /\ err' = "FileNotFoundError"
            /\ pc' = "failed"
            /\ UNCHANGED <<model, X_embedded_pretrained>>
       ELSE /\ model' = storage[PathPretrained]
            /\ X_embedded_pretrained' = Embed(storage[PathPretrained])
            /\ err' = Embed(storage[PathPretrained]).err
            /\ pc' = IF Embed(storage[PathPretrained]).err = "none"
                     THEN "eval_ft" ELSE "failed"
    /\ UNCHANGED <<args, out, run, storage, losses, loss, best_loss, epoch, n_epochs,
                   batch, lr, last_epoch, X_embedded>>

(* cell "Evaluate Fine-tuned Auto-Encoder" *)
EvalFinetuned ==
    /\ pc = "eval_ft"
    /\ hist' = [hist EXCEPT !.reads = @ \cup {PathFinetunedOld},
                            !.load = LoadRecord(PathFinetunedOld)]
    /\ IF storage[PathFinetunedOld] = Absent
       THEN /\ err' = "FileNotFoundError"
            /\ pc' = "failed"
            /\ UNCHANGED <<model, X_embedded>>
       ELSE /\ model' = storage[PathFinetunedOld]
            /\ X_embedded' = Embed(storage[PathFinetunedOld])
            /\ err' = Embed(storage[PathFinetunedOld]).err
            /\ pc' = IF Embed(storage[PathFinetunedOld]).err = "none"
                     THEN "done" ELSE "failed"
    /\ UNCHANGED <<args, out, run, storage, losses, loss, best_loss, epoch, n_epochs,
                   batch, lr, last_epoch, X_embedded_pretrained>>

Next ==
    \/ CreateModel
    \/ PreTrainStart
    \/ PreTrainEpochBegin
    \/ PreTrainBatch
    \/ PreTrainEpochEnd
    \/ FineTuneStart
    \/ FineTuneBatch
    \/ FineTuneEpochEnd
    \/ EvalPretrained
    \/ EvalFinetuned

Spec == Init /\ [][Next]_vars
SpecLR == InitLR /\ [][Next]_vars
SpecArch == InitArch /\ [][NextArch]_vars

-----------------------------------------------------------------------------
(* Properties of the classes, checked under SpecArch *)

Built == pc \in {"arch_built", "arch_done"}

(* a width schedule the data model allows: at least 2 widths, all positive *)
ValidSchedule(h) == Len(h) >= 2 /\ \A i \in DOMAIN h : h[i] > 0

(* the transforms of a model in the order forward applies them *)
Chain(m) ==
    <<m.encoder.input_layer>>
    \o [i \in 1..m.encoder.n_layers |-> m.encoder.dense[i - 1]]
    \o [i \in 1..m.decoder.n_layers |-> m.decoder.dense[i - 1]]
    \o <<m.decoder.output_layer>>

Composable(c) == \A i \in 1..(Len(c) - 1) : c[i].out = c[i + 1].in

(* C1: for an input width n > 0 and a schedule [w0..wk] of at least 2 positive
   widths, construction succeeds, every transform's input width is the output
   width of the transform before it, the Decoder takes width wk and gives the
   Encoder's input_size, and forward on an x of width n returns an embedding of
   width wk and a reconstruction of width n. *)
C1_ForwardWidths ==
    (args.input_size > 0 /\ ValidSchedule(args.hidden_layers)) =>
        /\ pc # "arch_failed"
        /\ Built =>
            /\ Composable(Chain(model))
            /\ Chain(model)[1].in = args.input_size
            /\ model.decoder.dense[0].in = args.hidden_layers[Len(args.hidden_layers)]
            /\ model.decoder.output_layer.out = model.encoder.input_size
        /\ (pc = "arch_done" /\ out.x = args.input_size) =>
            /\ out.err = "none"
            /\ out.encoded.w = args.hidden_layers[Len(args.hidden_layers)]
            /\ out.decoded.w = args.input_size

C1_Witness ==
    /\ pc = "arch_done"
    /\ args.input_size = 1
    /\ args.hidden_layers = <<3, 1, 2>>
    /\ out.x = 1
    /\ out.err = "none"
    /\ out.encoded.w = 2
    /\ out.decoded.w = 1

(* C2: the Decoder built from an Encoder with schedule [w0..wk] has the
   schedule [wk..w0], exactly k transforms of which the i-th maps w(k-i) to
   w(k-i-1), then an output projection from w0 to the Encoder's input_size;
   the Encoder's own schedule is still [w0..wk]. *)
C2_DecoderMirrors ==
    Built =>
        LET h == args.hidden_layers
            k == Len(h) - 1
            dec == model.decoder
        IN /\ Len(dec.hidden_layers) = k + 1
           /\ \A i \in 1..(k + 1) : dec.hidden_layers[i] = h[k + 2 - i]
           /\ dec.n_layers = k
           /\ DOMAIN dec.dense = 0..(k - 1)
           /\ \A i \in 0..(k - 1) : /\ dec.dense[i].in = h[k + 1 - i]
                                    /\ dec.dense[i].out = h[k - i]
           /\ dec.output_layer = Linear(h[1], args.input_size)
           /\ model.encoder.hidden_layers = h
           /\ model.hidden_layers = h

C2_Witness ==
    /\ pc = "arch_built"
    /\ args.hidden_layers = <<3, 2, 1>>
    /\ args.input_size = 2
    /\ model.decoder.hidden_layers = <<1, 2, 3>>
    /\ model.decoder.dense[0] = Linear(1, 2)
    /\ model.decoder.dense[1] = Linear(2, 3)
    /\ model.decoder.output_layer = Linear(3, 2)

(* C8: constructing an AutoEncoder with a schedule of fewer than 2 widths, or
   one holding a width <= 0, fails at construction and no model is created. *)
C8_InvalidScheduleRejected ==
    (~ValidSchedule(args.hidden_layers) /\ pc # "arch_new") =>
        /\ pc = "arch_failed"
        /\ err # "none"
        /\ model = NoModel

-----------------------------------------------------------------------------
(* Properties of the pipeline, checked under Spec and SpecLR *)

InPreTraining == pc \in {"pre_epoch", "pre_batch"}
AfterPreTraining == pc = "finetune"
InFineTuning == pc = "ft_batch"

(* C3: in pre-training a checkpoint is stored at the end of an epoch exactly
   when that epoch's mean loss is below the best seen so far, and best-loss
   becomes that mean; so best_loss is the least epoch mean so far (infinity
   before the first epoch) and the stored checkpoint holds the parameters of
   the end of the epoch that reached it. *)
C3_BestLossIsMinMean ==
    (InPreTraining \/ AfterPreTraining) =>
        /\ best_loss = hist.min_mean
        /\ hist.min_mean = Inf => storage[PathPretrained] = Absent
        /\ hist.min_mean # Inf =>
            /\ storage[PathPretrained] # Absent
            /\ storage[PathPretrained].params = hist.min_params

(* C4: when an evaluation cell computes embeddings from a loaded checkpoint,
   the model is in evaluation mode (dropout disabled), for the pre-trained and
   for the fine-tuned configuration. *)
C4_EvalModeAtEmbedding ==
    /\ X_embedded_pretrained # NoResult => ~X_embedded_pretrained.training
    /\ X_embedded # NoResult => ~X_embedded.training

(* C5: when fine-tuning begins its loss accumulator is empty and best-loss is
   reset, and the mean loss of a fine-tuning epoch is taken over batch losses
   of the fine-tuning phase only. *)
C5_FineTuneLossesOwnPhase ==
    /\ hist.ft_start # NoResult => hist.ft_start.losses = <<>>
    /\ (InFineTuning /\ epoch = 0 /\ batch = 0) => best_loss = Inf
    /\ (hist.mean # NoResult /\ hist.mean.phase = "ft") => hist.mean.over = {"ft"}

(* C6: fine-tuning starts from the parameters of the pre-training checkpoint
   and stores a checkpoint at the end of every epoch whatever the loss, so
   after epoch e the fine-tuned checkpoint holds the parameters as they are at
   the end of epoch e. *)
C6_FineTuneSavesEveryEpoch ==
    /\ (InFineTuning /\ epoch = 0 /\ batch = 0) =>
            model.params = storage[PathPretrained].params
    /\ InFineTuning =>
            /\ model.params.pre = storage[PathPretrained].params.pre
            /\ model.params.ft = epoch * NumBatches + batch
    /\ (InFineTuning /\ epoch = 0) => storage[PathFinetuned] = Absent
    /\ (InFineTuning /\ epoch > 0 /\ batch = 0) =>
            /\ storage[PathFinetuned] # Absent
            /\ storage[PathFinetuned].params = model.params
    /\ hist.ft_saved # NoResult =>
            /\ storage[PathFinetuned] # Absent
            /\ storage[PathFinetuned].params = hist.ft_saved.params
            /\ storage[PathFinetuned].params.ft = (hist.ft_saved.epoch + 1) * NumBatches

(* fine-tuning is over, its last epoch had a non-finite mean loss and the
   checkpoint still holds the parameters of the end of that epoch *)
C6_Witness ==
    /\ pc = "eval_pre"
    /\ hist.mean.phase = "ft"
    /\ hist.mean.v = NaN
    /\ hist.ft_saved.epoch = n_epochs - 1
    /\ hist.ft_saved.epoch >= 1
    /\ storage[PathFinetuned].params = hist.ft_saved.params
    /\ storage[PathFinetuned].params.ft = n_epochs * NumBatches

RECURSIVE Pow10(_)
Pow10(n) == IF n = 0 THEN 1 ELSE 10 * Pow10(n - 1)

(* C7: in pre-training the scheduler is stepped once per epoch, after the
   epoch's batch updates, so every batch update of epoch e (0-based) uses the
   rate initial_rate * 0.1^floor(e/100), and the rate changes only where the
   epoch index becomes a multiple of 100. *)
C7_StepSchedule ==
    InPreTraining =>
        /\ last_epoch = epoch
        /\ lr = LrInit \div Pow10(epoch \div 100)
        /\ (pc = "pre_batch" /\ batch > 0) =>
                hist.lr_used = LrInit \div Pow10(epoch \div 100)

C7_Witness ==
    /\ pc = "pre_batch"
    /\ epoch = 250
    /\ batch = NumBatches
    /\ hist.lr_used = 10
    /\ lr = 10

(* C9: loading a checkpoint whose stored topology differs from that of the
   model about to receive it, or an absent checkpoint, fails and leaves the
   model's parameters as they were. *)
C9_MismatchedLoadFails ==
    (hist.load # NoResult /\ (~hist.load.found \/ hist.load.stored # hist.load.target)) =>
        /\ ~hist.load.ok
        /\ err # "none"
        /\ model.params = hist.load.before

(* C10: every checkpoint that is read was written earlier by a training phase
   of the same run; the fine-tuned evaluation reads the checkpoint fine-tuning
   wrote; no read targets a path that no training phase writes. *)
C10_ReadsWereWritten ==
    /\ (hist.load # NoResult /\ hist.load.ok) => hist.load.path \in hist.writes
    /\ X_embedded # NoResult => X_embedded.params = storage[PathFinetuned].params

-----------------------------------------------------------------------------
(* Further properties of the classes, checked under SpecArch *)

PairBuilt == pc = "arch_pair" /\ Len(args.hidden_layers) = 3

(* C11 as stated: the Decoders built from two Encoders of the same input
   width with schedules [a,b,c] and [c,b,a] have the same sequence of
   transform shapes. *)
C11_MirroredDecodersSameTopology ==
    PairBuilt => DecoderShapes(out.decoder1) = DecoderShapes(out.decoder2)

(* C11 amended: each of the two Decoders has the width sequence of the other
   Encoder's schedule (decoder1 runs c->b->a->input, decoder2 runs
   a->b->c->input), so their transform shapes are the same exactly when
   a = c. *)
C11_MirroredDecodersAmended ==
    PairBuilt =>
        LET a == args.hidden_layers[1]
            b == args.hidden_layers[2]
            c == args.hidden_layers[3]
            n == args.input_size
        IN /\ out.encoder1.hidden_layers = <<a, b, c>>
           /\ out.encoder2.hidden_layers = <<c, b, a>>
           /\ out.decoder1.hidden_layers = out.encoder2.hidden_layers
           /\ out.decoder2.hidden_layers = out.encoder1.hidden_layers
           /\ DecoderShapes(out.decoder1) = <<Linear(c, b), Linear(b, a), Linear(a, n)>>
           /\ DecoderShapes(out.decoder2) = <<Linear(a, b), Linear(b, c), Linear(c, n)>>
           /\ (DecoderShapes(out.decoder1) = DecoderShapes(out.decoder2)) <=> (a = c)

C11_Witness ==
    /\ pc = "arch_pair"
    /\ args.hidden_layers = <<3, 2, 1>>
    /\ args.input_size = 2
    /\ DecoderShapes(out.decoder1) = <<Linear(1, 2), Linear(2, 3), Linear(3, 2)>>
    /\ DecoderShapes(out.decoder2) = <<Linear(3, 2), Linear(2, 1), Linear(1, 2)>>

RECURSIVE Repeat(_, _)
Repeat(n, block) == IF n <= 0 THEN <<>> ELSE block \o Repeat(n - 1, block)

CountStage(trace, name) == Cardinality({i \in DOMAIN trace : trace[i] = name})

ForwardDone ==
    /\ pc = "arch_done"
    /\ out.x = args.input_size
    /\ Len(args.hidden_layers) >= 2

(* C12: with schedule [w0..wk], forward applies: the input projection and the
   activation (no dropout); each of the first k-1 encoder transforms followed
   by activation then dropout; the last encoder transform alone, whose output
   is the embedding; each of the k decoder transforms followed by activation
   then dropout; the output projection alone.  The activation is applied 2k
   times and dropout 2k-1 times, neither to the embedding nor to the
   reconstruction. *)
C12_StageOrder ==
    ForwardDone =>
        LET k == Len(args.hidden_layers) - 1
            block == <<"linear", "activation", "dropout">>
            enc == out.encoded.trace
            dec == out.decoded.trace
        IN /\ out.err = "none"
           /\ enc = <<"linear", "activation">> \o Repeat(k - 1, block) \o <<"linear">>
           /\ dec = Repeat(k, block) \o <<"linear">>
           /\ CountStage(enc, "activation") + CountStage(dec, "activation") = 2 * k
           /\ CountStage(enc, "dropout") + CountStage(dec, "dropout") = 2 * k - 1
           /\ enc[Len(enc)] = "linear"
           /\ dec[Len(dec)] = "linear"

C12_Witness ==
    /\ pc = "arch_done"
    /\ out.x = args.input_size
    /\ Len(args.hidden_layers) = 3
    /\ out.encoded.trace =
         <<"linear", "activation", "linear", "activation", "dropout", "linear">>
    /\ out.decoded.trace =
         <<"linear", "activation", "dropout", "linear", "activation", "dropout", "linear">>

(* C15: the Encoder and the Decoder of an AutoEncoder built with dropout rate
   p and activation f both use dropout rate p and both apply activation f. *)
C15_PartsUseConfiguration ==
    (Built /\ ValidSchedule(args.hidden_layers)) =>
        /\ model.encoder.dropout_rate = args.dropout_rate
        /\ model.decoder.dropout_rate = args.dropout_rate
        /\ model.encoder.activation = args.activation
        /\ model.decoder.activation = args.activation

-----------------------------------------------------------------------------
(* Further properties of the pipeline, checked under Spec *)

(* C13: no stored checkpoint, of either training phase, holds parameters
   produced by an epoch whose loss was non-finite. *)
C13_NoCheckpointAfterNonFiniteLoss ==
    \A p \in {PathPretrained, PathFinetuned} :
        storage[p] # Absent => ~storage[p].params.nan

AfterFineTuneStart == hist.ft_start # NoResult

(* C14: fine-tuning writes only to its own path: from the start of
   fine-tuning on, the file at the pre-training path is the last checkpoint
   pre-training wrote, and that is what the pre-trained evaluation loads. *)
C14_PretrainedCheckpointKept ==
    /\ AfterFineTuneStart =>
            /\ storage[PathPretrained] = hist.pre_saved
            /\ storage[PathPretrained].params = hist.ft_start.params
            /\ storage[PathPretrained].params.ft = 0
    /\ X_embedded_pretrained # NoResult =>
            /\ X_embedded_pretrained.params = hist.pre_saved.params
            /\ X_embedded_pretrained.training = hist.pre_saved.training

(* fine-tuning has run all its epochs and stored other parameters; the
   pre-trained evaluation has loaded the pre-training checkpoint *)
C14_Witness ==
    /\ pc = "eval_ft"
    /\ storage[PathFinetuned].params.ft = n_epochs * NumBatches
    /\ storage[PathFinetuned].params # storage[PathPretrained].params
    /\ X_embedded_pretrained.params = hist.pre_saved.params
    /\ hist.pre_saved.params.pre > 0
====
